---- MODULE Spec2Model ----
(***************************************************************************)
(* Intraday momentum backtester: noise bands (src/src/noise_area.py),      *)
(* running VWAP (src/src/vwap.py), the event-driven session engine         *)
(* (src/src/backtester.py), max drawdown (src/src/analytics.py) and the    *)
(* configuration the command-line scripts build (src/scripts).             *)
(*                                                                         *)
(* Floats are modelled as exact rationals <<n, d>> in lowest terms with    *)
(* d > 0; the missing value NaN is <<0, 0>> and a non-zero number divided  *)
(* by zero is <<1, 0>> or <<-1, 0>> (inf).  A timestamp is the pair of a   *)
(* calendar date (1, 2, ...) and a time of day in minutes after midnight.  *)
(***************************************************************************)
EXTENDS Integers, Sequences, FiniteSets, TLC

VARIABLES
    config,         \* BacktesterConfig of the run
    intraday,       \* input: intraday bars, ascending by timestamp
    daily_vol,      \* input: _compute_daily_vol(daily).shift(1), a partial map date -> vol
    df,             \* _prepare_intraday(intraday, config): bars with bands and vwap
    pc,             \* position of the run
    sessions,       \* sessions still to walk (ascending)
    session_df,     \* rows of the session being walked
    bar,            \* index of the next row of session_df
    capital, trades, equity_rows,
    shares_today, vol_est, pos, entry_price, entry_time, daily_pnl,
    equity_curve,   \* input of max_drawdown
    args,           \* command-line arguments of a script
    inferred_type,  \* df.index.inferred_type of the frame handed to a function
    features,       \* the frame build_features hands to generate_signals
    result          \* value returned by the function under study

vars == <<config, intraday, daily_vol, df, pc, sessions, session_df, bar,
          capital, trades, equity_rows, shares_today, vol_est, pos,
          entry_price, entry_time, daily_pnl, equity_curve, args, inferred_type,
          features, result>>

(***************************************************************************)
(* Rational arithmetic with NaN                                            *)
(***************************************************************************)
Abs(x) == IF x < 0 THEN -x ELSE x

Sign(x) == IF x < 0 THEN -1 ELSE IF x > 0 THEN 1 ELSE 0

RECURSIVE GCD(_, _)
GCD(a, b) == IF b = 0 THEN a ELSE GCD(b, a % b)

NaN == <<0, 0>>

Norm(n, d) ==
    IF d = 0 THEN <<Sign(n), 0>>
    ELSE LET g == GCD(Abs(n), Abs(d))
         IN  <<(Sign(d) * n) \div g, Abs(d) \div g>>

Q(n) == <<n, 1>>

Zero == Q(0)

One == Q(1)

isnan(x) == x = NaN

IsFinite(x) == x[2] > 0

RAdd(a, b) ==
    IF IsFinite(a) /\ IsFinite(b) THEN Norm(a[1] * b[2] + b[1] * a[2], a[2] * b[2])
    ELSE IF isnan(a) \/ isnan(b) THEN NaN
    ELSE IF IsFinite(a) THEN b
    ELSE IF IsFinite(b) \/ a = b THEN a
    ELSE NaN

RNeg(a) == <<-a[1], a[2]>>

RSub(a, b) == RAdd(a, RNeg(b))

RMul(a, b) == Norm(a[1] * b[1], a[2] * b[2])

RDiv(a, b) ==
    IF IsFinite(b) THEN
        IF b[1] = 0 THEN <<Sign(a[1]), 0>>
        ELSE Norm(a[1] * b[2] * Sign(b[1]), a[2] * Abs(b[1]))
    ELSE IF IsFinite(a) /\ ~isnan(b) THEN Zero
    ELSE NaN

RAbs(a) == <<Abs(a[1]), a[2]>>

\* Comparisons are false as soon as one side is NaN.
RLt(a, b) ==
    /\ ~isnan(a) /\ ~isnan(b)
    /\ IF IsFinite(a) /\ IsFinite(b) THEN a[1] * b[2] < b[1] * a[2]
       ELSE IF IsFinite(a) THEN b[1] > 0
       ELSE IF IsFinite(b) THEN a[1] < 0
       ELSE a[1] < b[1]

RLe(a, b) == ~isnan(a) /\ ~isnan(b) /\ ~RLt(b, a)

RGt(a, b) == RLt(b, a)

RGe(a, b) == RLe(b, a)

\* Python's built-in max(a, b) and min(a, b): the first argument unless the
\* second compares greater (smaller).
PyMax(a, b) == IF RGt(b, a) THEN b ELSE a

PyMin(a, b) == IF RLt(b, a) THEN b ELSE a

\* numpy.maximum / numpy.minimum: NaN if either operand is NaN.
NpMaximum(a, b) == IF isnan(a) \/ isnan(b) THEN NaN ELSE IF RLt(a, b) THEN b ELSE a

NpMinimum(a, b) == IF isnan(a) \/ isnan(b) THEN NaN ELSE IF RLt(b, a) THEN b ELSE a

(***************************************************************************)
(* Frames: a frame is a sequence of rows (records) in index order.         *)
(***************************************************************************)
SetMin(S) == CHOOSE x \in S : \A y \in S : x <= y

SetMax(S) == CHOOSE x \in S : \A y \in S : x >= y

RECURSIVE SortedSeq(_)
SortedSeq(S) == IF S = {} THEN <<>> ELSE <<SetMin(S)>> \o SortedSeq(S \ {SetMin(S)})

\* df.index.date of every row, without duplicates, ascending
SessionKeys(frame) == SortedSeq({frame[i].date : i \in DOMAIN frame})

RowsOf(frame, s) == {i \in DOMAIN frame : frame[i].date = s}

PosOf(seq, x) == CHOOSE k \in DOMAIN seq : seq[k] = x

\* groupby("session")["open"].transform("first")
session_open(frame, s) == Q(frame[SetMin(RowsOf(frame, s))].open)

\* groupby("session")["close"].last()
session_close(frame, s) == Q(frame[SetMax(RowsOf(frame, s))].close)

(***************************************************************************)
(* Inputs of a run                                                         *)
(***************************************************************************)
MaxSessions == 3

MaxPrice == 3

Prices == 1..MaxPrice

\* 09:30 and 10:00 are decision marks, 09:45 is not
TimeGrids == {<<570, 600>>, <<570, 585>>}

R(n, d) == Norm(n, d)

BacktesterConfig(lookback_days) ==
    [lookback_days |-> lookback_days,
     volatility_multiplier |-> One,
     target_daily_vol |-> R(1, 50),
     max_leverage |-> Q(4),
     commission_per_share |-> R(1, 8),
     slippage_per_share |-> R(1, 8),
     initial_capital |-> Q(12),
     decision_minutes |-> {0, 30}]

\* the bars of one session: the open of a bar after the first is the close before it
SessionBars(d, grid, o, closes, volumes) ==
    [k \in DOMAIN closes |->
        [date |-> d, time |-> grid[k], open |-> IF k = 1 THEN o ELSE closes[k - 1],
         close |-> closes[k], volume |-> volumes[k]]]

\* the sessions of date d: the first n bars of the grid, for every n
SessionInputs(d, grid, opens, closes, volumes) ==
    UNION {{SessionBars(d, grid, o, cs, vs) :
                o \in opens, cs \in [1..n -> closes], vs \in [1..n -> volumes]} :
           n \in 1..Len(grid)}

\* the bars of n sessions, ascending by timestamp
RECURSIVE Datasets(_, _, _, _, _)
Datasets(n, grid, opens, closes, volumes) ==
    IF n = 0 THEN {<<>>}
    ELSE {prev \o s : prev \in Datasets(n - 1, grid, opens, closes, volumes),
                      s \in SessionInputs(n, grid, opens, closes, volumes)}

\* prior-day volatility estimates: none on the first day, then missing, zero,
\* or one that gives leverage 2 (1/100) or the capped leverage 4 (1/400)
DailyVolInputs ==
    {f \in [2..MaxSessions -> {NaN, Zero, R(1, 100), R(1, 400)}] : TRUE}

(***************************************************************************)
(* src/src/noise_area.py                                                   *)
(***************************************************************************)
\* df["move"] = (df["close"] / df["session_open"] - 1.0).abs()
move(frame, i) ==
    RAbs(RSub(RDiv(Q(frame[i].close), session_open(frame, frame[i].date)), One))

\* df.pivot(index="session", columns="time", values="move"): the cell of
\* session s and time bucket t, NaN where the session has no bar at t
pivot(frame, s, t) ==
    LET hit == {i \in RowsOf(frame, s) : frame[i].time = t}
    IN  IF hit = {} THEN NaN ELSE move(frame, CHOOSE i \in hit : TRUE)

RECURSIVE SumRange(_, _, _)
SumRange(col, lo, hi) ==
    IF lo > hi THEN Zero ELSE RAdd(col[lo], SumRange(col, lo + 1, hi))

\* .rolling(window=w, min_periods=w).mean() down one column of the pivot
rolling_mean(col, w) ==
    [k \in DOMAIN col |->
        IF k < w \/ \E j \in (k - w + 1)..k : isnan(col[j]) THEN NaN
        ELSE RDiv(SumRange(col, k - w + 1, k), Q(w))]

\* mutant: the rolling mean is not shifted
shift_none(col) == col

\* .shift(1) down one column
shift(col) == [k \in DOMAIN col |-> IF k = 1 THEN NaN ELSE col[k - 1]]

\* the time buckets of the frame (the columns of the pivot)
TimesOf(frame) == {frame[i].time : i \in DOMAIN frame}

\* sigma_pivot: per time bucket, the shifted rolling mean down the sessions
sigma_pivot(frame, lookback_days) ==
    LET keys == SessionKeys(frame)
    IN  [t \in TimesOf(frame) |->
            shift(rolling_mean([k \in DOMAIN keys |-> pivot(frame, keys[k], t)],
                               lookback_days))]

\* sigma of every row of the frame (stack + left merge on session, time)
compute_time_of_day_sigma(frame, lookback_days) ==
    LET keys == SessionKeys(frame)
        table == sigma_pivot(frame, lookback_days)
    IN  [i \in DOMAIN frame |-> table[frame[i].time][PosOf(keys, frame[i].date)]]

\* mutant: the session's own close stands in for the previous one
prev_close_map_own(frame) ==
    [s \in {frame[i].date : i \in DOMAIN frame} |-> session_close(frame, s)]

\* prev_close_map = session_close.shift(), by session
prev_close_map(frame) ==
    LET keys == SessionKeys(frame)
    IN  [s \in {keys[k] : k \in DOMAIN keys} |->
            IF PosOf(keys, s) = 1 THEN NaN
            ELSE session_close(frame, keys[PosOf(keys, s) - 1])]

\* mutant: the anchors of the two bounds are swapped
compute_noise_bands_swapped(frame, lookback_days, volatility_multiplier) ==
    LET sigma == compute_time_of_day_sigma(frame, lookback_days)
        prev_close == prev_close_map(frame)
    IN  [i \in DOMAIN frame |->
            LET s == frame[i].date
                sigma_scaled == RMul(sigma[i], volatility_multiplier)
            IN  [sigma |-> sigma[i],
                 upper |-> RMul(NpMinimum(session_open(frame, s), prev_close[s]),
                                RAdd(One, sigma_scaled)),
                 lower |-> RMul(NpMaximum(session_open(frame, s), prev_close[s]),
                                RSub(One, sigma_scaled))]]

\* the sigma, upper and lower columns, one record per row of the frame
compute_noise_bands(frame, lookback_days, volatility_multiplier) ==
    LET sigma == compute_time_of_day_sigma(frame, lookback_days)
        prev_close == prev_close_map(frame)
    IN  [i \in DOMAIN frame |->
            LET s == frame[i].date
                sigma_scaled == RMul(sigma[i], volatility_multiplier)
            IN  [sigma |-> sigma[i],
                 upper |-> RMul(NpMaximum(session_open(frame, s), prev_close[s]),
                                RAdd(One, sigma_scaled)),
                 lower |-> RMul(NpMinimum(session_open(frame, s), prev_close[s]),
                                RSub(One, sigma_scaled))]]

(***************************************************************************)
(* src/src/vwap.py                                                         *)
(***************************************************************************)
RECURSIVE SumOver(_, _, _)
SumOver(frame, rows, pv) ==
    IF rows = {} THEN 0
    ELSE LET i == SetMin(rows)
         IN  (IF pv THEN frame[i].close * frame[i].volume ELSE frame[i].volume)
             + SumOver(frame, rows \ {i}, pv)

\* grouped["pv"].cumsum() and grouped["volume"].cumsum() at row i
cum_pv(frame, i) == SumOver(frame, {j \in RowsOf(frame, frame[i].date) : j <= i}, TRUE)

\* mutant: the volume is accumulated over the whole frame, not per session
cum_vol_running(frame, i) == SumOver(frame, {j \in DOMAIN frame : j <= i}, FALSE)

cum_vol(frame, i) == SumOver(frame, {j \in RowsOf(frame, frame[i].date) : j <= i}, FALSE)

\* the vwap column intraday_vwap adds to the frame
intraday_vwap(frame) ==
    [i \in DOMAIN frame |-> RDiv(Q(cum_pv(frame, i)), Q(cum_vol(frame, i)))]

(***************************************************************************)
(* src/src/analytics.py                                                    *)
(***************************************************************************)
\* Series.cummax() at position i
cummax(curve, i) == Q(SetMax({curve[j] : j \in 1..i}))

\* Series.min() and Series.max(): missing values are skipped, the result is
\* missing when nothing is left
series_min(col) ==
    LET vals == {col[i] : i \in DOMAIN col} \ {NaN}
    IN  IF vals = {} THEN NaN ELSE CHOOSE x \in vals : \A y \in vals : RLe(x, y)

series_max(col) ==
    LET vals == {col[i] : i \in DOMAIN col} \ {NaN}
    IN  IF vals = {} THEN NaN ELSE CHOOSE x \in vals : \A y \in vals : RGe(x, y)

\* equity_curve / running_max - 1, row by row
drawdown(curve) ==
    [i \in DOMAIN curve |-> RSub(RDiv(Q(curve[i]), cummax(curve, i)), One)]

\* mutant: the largest entry of the drawdown series is returned
max_drawdown_max(curve) == series_max(drawdown(curve))

max_drawdown(curve) == series_min(drawdown(curve))

(***************************************************************************)
(* src/src/backtester.py                                                   *)
(***************************************************************************)
RTH_START == 570

RTH_END == 960

\* Python's None (entry_price, entry_time of a flat engine)
None == <<0, -1>>

_filter_rth(frame) ==
    SelectSeq(frame, LAMBDA r : r.time >= RTH_START /\ r.time <= RTH_END)

\* DataFrame.sort_index() on unique timestamps
TsKey(r) == r.date * 1440 + r.time

sort_index(frame) ==
    LET ks == SortedSeq({TsKey(frame[i]) : i \in DOMAIN frame})
    IN  [k \in DOMAIN ks |-> frame[CHOOSE i \in DOMAIN frame : TsKey(frame[i]) = ks[k]]]

\* bands joined to the filtered bars, session columns, vwap
_prepare_intraday(frame, cfg) ==
    LET filtered == sort_index(_filter_rth(frame))
        bands == compute_noise_bands(filtered, cfg.lookback_days, cfg.volatility_multiplier)
        vwap == intraday_vwap(filtered)
    IN  [i \in DOMAIN filtered |->
            [session |-> filtered[i].date,
             time |-> filtered[i].time,
             close |-> Q(filtered[i].close),
             upper |-> bands[i].upper,
             lower |-> bands[i].lower,
             sigma |-> bands[i].sigma,
             session_open |-> session_open(filtered, filtered[i].date),
             vwap |-> vwap[i]]]

\* mutant: only a missing estimate is refused
calc_shares_nan_only(capital_, day_open, vol) ==
    IF isnan(vol) THEN Zero
    ELSE LET leverage == PyMin(config.max_leverage, RDiv(config.target_daily_vol, vol))
         IN  RDiv(RMul(capital_, leverage), day_open)

_calc_shares(capital_, day_open, vol) ==
    IF isnan(vol) \/ RLe(vol, Zero) THEN Zero
    ELSE LET leverage == PyMin(config.max_leverage, RDiv(config.target_daily_vol, vol))
         IN  RDiv(RMul(capital_, leverage), day_open)

\* mutant: the gross P&L ignores the side
close_trade_long_only(entry_price_, exit_price, shares, side) ==
    LET per_share_cost ==
            RMul(RAdd(config.commission_per_share, config.slippage_per_share), Q(2))
        gross == RMul(RSub(exit_price, entry_price_), shares)
        costs == RMul(per_share_cost, shares)
    IN  [gross |-> gross, costs |-> costs, net |-> RSub(gross, costs)]

\* (gross, costs, net) of closing a position
_close_trade(entry_price_, exit_price, shares, side) ==
    LET per_share_cost ==
            RMul(RAdd(config.commission_per_share, config.slippage_per_share), Q(2))
        gross == IF side = "LONG" THEN RMul(RSub(exit_price, entry_price_), shares)
                 ELSE RMul(RSub(entry_price_, exit_price), shares)
        costs == RMul(per_share_cost, shares)
    IN  [gross |-> gross, costs |-> costs, net |-> RSub(gross, costs)]

Trade(entry_time_, exit_time, side, shares, entry_price_, exit_price, pnl, exit_reason) ==
    [entry_time |-> entry_time_, exit_time |-> exit_time, side |-> side,
     shares |-> shares, entry_price |-> entry_price_, exit_price |-> exit_price,
     gross_pnl |-> pnl.gross, costs |-> pnl.costs, net_pnl |-> pnl.net,
     exit_reason |-> exit_reason]

\* mutant: the row compounds the P&L as if it were a return
EquityRow_compounded(date, equity_start, pnl, equity_end, vol, shares) ==
    [date |-> date, equity_start |-> equity_start, daily_pnl |-> pnl,
     equity_end |-> RMul(equity_start, RAdd(One, pnl)), vol_est |-> vol,
     shares |-> shares]

EquityRow(date, equity_start, pnl, equity_end, vol, shares) ==
    [date |-> date, equity_start |-> equity_start, daily_pnl |-> pnl,
     equity_end |-> equity_end, vol_est |-> vol, shares |-> shares]

\* ts.minute in self.config.decision_minutes and ts.second == 0 (minute bars)
decision_time(row) == (row.time % 60) \in config.decision_minutes

Timestamp(row) == <<row.session, row.time>>

\* the engine's locals that one bar can change
Locals == [pos |-> pos, entry_price |-> entry_price, entry_time |-> entry_time,
           daily_pnl |-> daily_pnl, trades |-> trades]

\* mutant: the day's accumulator takes the gross P&L of the closed trade
Closed_gross(st, row, side, reason) ==
    LET pnl == _close_trade(st.entry_price, row.close, shares_today, side)
    IN  [pos |-> 0, entry_price |-> None, entry_time |-> None,
         daily_pnl |-> RAdd(st.daily_pnl, pnl.gross),
         trades |-> Append(st.trades,
                           Trade(st.entry_time, Timestamp(row), side, shares_today,
                                 st.entry_price, row.close, pnl, reason))]

\* closing the held position at the bar's close
Closed(st, row, side, reason) ==
    LET pnl == _close_trade(st.entry_price, row.close, shares_today, side)
    IN  [pos |-> 0, entry_price |-> None, entry_time |-> None,
         daily_pnl |-> RAdd(st.daily_pnl, pnl.net),
         trades |-> Append(st.trades,
                           Trade(st.entry_time, Timestamp(row), side, shares_today,
                                 st.entry_price, row.close, pnl, reason))]

\* mutant: the stop is checked on every bar
StopCheck_every_bar(st, row) ==
    IF st.pos > 0 THEN
        IF RLe(row.close, PyMax(row.upper, row.vwap))
        THEN Closed(st, row, "LONG", "stop") ELSE st
    ELSE IF st.pos < 0 THEN
        IF RGe(row.close, PyMin(row.lower, row.vwap))
        THEN Closed(st, row, "SHORT", "stop") ELSE st
    ELSE st

\* "Trailing stop check at decision times"
StopCheck(st, row) ==
    IF st.pos > 0 /\ decision_time(row) THEN
        IF RLe(row.close, PyMax(row.upper, row.vwap))
        THEN Closed(st, row, "LONG", "stop") ELSE st
    ELSE IF st.pos < 0 /\ decision_time(row) THEN
        IF RGe(row.close, PyMin(row.lower, row.vwap))
        THEN Closed(st, row, "SHORT", "stop") ELSE st
    ELSE st

desired_pos(row) ==
    IF RGt(row.close, row.upper) THEN 1
    ELSE IF RLt(row.close, row.lower) THEN -1
    ELSE 0

\* "Entry / flip logic"
EntryFlip(st, row) ==
    LET desired == desired_pos(row)
        flat == IF st.pos # 0
                THEN Closed(st, row, IF st.pos > 0 THEN "LONG" ELSE "SHORT",
                            IF desired # 0 THEN "reverse" ELSE "band_exit")
                ELSE st
    IN  IF desired = st.pos THEN st
        ELSE IF desired # 0
             THEN [flat EXCEPT !.pos = desired, !.entry_price = row.close,
                               !.entry_time = Timestamp(row)]
             ELSE flat

\* mutant: bars without bands are processed like any other
BarBody_no_skip(st, row) ==
    LET stopped == StopCheck(st, row)
    IN  IF ~decision_time(row) THEN stopped ELSE EntryFlip(stopped, row)

\* the body of "for ts, row in session_df.iterrows()"
BarBody(st, row) ==
    IF isnan(row.upper) \/ isnan(row.lower) THEN st
    ELSE LET stopped == StopCheck(st, row)
         IN  IF ~decision_time(row) THEN stopped ELSE EntryFlip(stopped, row)

\* mutant: the flatten is skipped when the last bar was skipped by the walk
EodFlat_walked_bars_only(st, last_row) ==
    IF st.pos # 0 /\ st.entry_price # None
       /\ ~isnan(last_row.upper) /\ decision_time(last_row) THEN
        LET side == IF st.pos > 0 THEN "LONG" ELSE "SHORT"
            pnl == _close_trade(st.entry_price, last_row.close, shares_today, side)
        IN  [st EXCEPT !.daily_pnl = RAdd(st.daily_pnl, pnl.net),
                       !.trades = Append(st.trades,
                           Trade(st.entry_time, Timestamp(last_row), side, shares_today,
                                 st.entry_price, last_row.close, pnl, "eod"))]
    ELSE st

\* "End-of-day flat"
EodFlat(st, last_row) ==
    IF st.pos # 0 /\ st.entry_price # None THEN
        LET side == IF st.pos > 0 THEN "LONG" ELSE "SHORT"
            pnl == _close_trade(st.entry_price, last_row.close, shares_today, side)
        IN  [st EXCEPT !.daily_pnl = RAdd(st.daily_pnl, pnl.net),
                       !.trades = Append(st.trades,
                           Trade(st.entry_time, Timestamp(last_row), side, shares_today,
                                 st.entry_price, last_row.close, pnl, "eod"))]
    ELSE st

VolGet(session) == IF session \in DOMAIN daily_vol THEN daily_vol[session] ELSE NaN

SessionRows(session) == SelectSeq(df, LAMBDA r : r.session = session)

Idle == /\ pos = 0 /\ entry_price = None /\ entry_time = None /\ daily_pnl = Zero
        /\ shares_today = Zero /\ vol_est = NaN /\ session_df = <<>> /\ bar = 0

\* run: df = _prepare_intraday(intraday, self.config)
Prepare ==
    /\ pc = "start"
    /\ df' = _prepare_intraday(intraday, config)
    /\ pc' = "daily"
    /\ UNCHANGED <<config, intraday, daily_vol, sessions, session_df, bar, capital,
                   trades, equity_rows, shares_today, vol_est, pos, entry_price,
                   entry_time, daily_pnl, equity_curve, args,
                   inferred_type, features, result>>

\* run: the prior-day volatility estimates (a rolling standard deviation of the
\* daily returns, shifted by one day) are read from the daily bars, then the
\* ledgers are set up
DailyVol ==
    /\ pc = "daily"
    /\ daily_vol' \in DailyVolInputs
    /\ capital' = config.initial_capital
    /\ trades' = <<>>
    /\ equity_rows' = <<>>
    /\ sessions' = SortedSeq({df[i].session : i \in DOMAIN df})
    /\ pc' = "sessions"
    /\ UNCHANGED <<config, intraday, df, session_df, bar, shares_today, vol_est,
                   pos, entry_price, entry_time, daily_pnl, equity_curve, args,
                   inferred_type, features, result>>

\* a session whose share size is zero: a zero-P&L equity row, and continue
SkipSession ==
    /\ pc = "sessions" /\ sessions # <<>>
    /\ LET session == Head(sessions)
           rows == SessionRows(session)
           vol == VolGet(session)
           shares == _calc_shares(capital, rows[1].session_open, vol)
       IN  /\ shares = Zero
           /\ equity_rows' = Append(equity_rows,
                                    EquityRow(session, capital, Zero, capital, vol, shares))
           /\ vol_est' = vol
           /\ shares_today' = shares
           /\ session_df' = rows
    /\ sessions' = Tail(sessions)
    /\ UNCHANGED <<config, intraday, daily_vol, df, pc, bar, capital, trades,
                   pos, entry_price, entry_time, daily_pnl, equity_curve, args,
                   inferred_type, features, result>>

\* a traded session: the locals are reset before its bars are walked
BeginSession ==
    /\ pc = "sessions" /\ sessions # <<>>
    /\ LET session == Head(sessions)
           rows == SessionRows(session)
           vol == VolGet(session)
           shares == _calc_shares(capital, rows[1].session_open, vol)
       IN  /\ shares # Zero
           /\ vol_est' = vol
           /\ shares_today' = shares
           /\ session_df' = rows
    /\ pos' = 0
    /\ entry_price' = None
    /\ entry_time' = None
    /\ daily_pnl' = Zero
    /\ bar' = 1
    /\ pc' = "bars"
    /\ UNCHANGED <<config, intraday, daily_vol, df, sessions, capital, trades,
                   equity_rows, equity_curve, args,
                   inferred_type, features, result>>

\* one bar of the session
Bar ==
    /\ pc = "bars" /\ bar <= Len(session_df)
    /\ LET st == BarBody(Locals, session_df[bar])
       IN  /\ pos' = st.pos
           /\ entry_price' = st.entry_price
           /\ entry_time' = st.entry_time
           /\ daily_pnl' = st.daily_pnl
           /\ trades' = st.trades
    /\ bar' = bar + 1
    /\ UNCHANGED <<config, intraday, daily_vol, df, pc, sessions, session_df, capital,
                   equity_rows, shares_today, vol_est, equity_curve, args,
                   inferred_type, features, result>>

\* after the last bar: flatten, append the equity row, carry the capital
EndOfDay ==
    /\ pc = "bars" /\ bar > Len(session_df)
    /\ LET st == EodFlat(Locals, session_df[Len(session_df)])
       IN  /\ daily_pnl' = st.daily_pnl
           /\ trades' = st.trades
           /\ equity_rows' = Append(equity_rows,
                  EquityRow(Head(sessions), capital, st.daily_pnl,
                            RAdd(capital, st.daily_pnl), vol_est, shares_today))
           /\ capital' = RAdd(capital, st.daily_pnl)
    /\ sessions' = Tail(sessions)
    /\ pc' = "sessions"
    /\ UNCHANGED <<config, intraday, daily_vol, df, session_df, bar, shares_today,
                   vol_est, pos, entry_price, entry_time, equity_curve, args,
                   inferred_type, features, result>>

\* the frames are built and returned
Finish ==
    /\ pc = "sessions" /\ sessions = <<>>
    /\ pc' = "done"
    /\ UNCHANGED <<config, intraday, daily_vol, df, sessions, session_df, bar, capital,
                   trades, equity_rows, shares_today, vol_est, pos, entry_price,
                   entry_time, daily_pnl, equity_curve, args,
                   inferred_type, features, result>>

Init ==
    /\ config = BacktesterConfig(1)
    /\ \E grid \in TimeGrids :
           intraday \in Datasets(MaxSessions, grid, {2}, Prices, {1})
    /\ daily_vol = <<>>
    /\ df = <<>>
    /\ pc = "start"
    /\ sessions = <<>>
    /\ capital = Zero
    /\ trades = <<>>
    /\ equity_rows = <<>>
    /\ Idle
    /\ equity_curve = <<>>
    /\ args = <<>>
    /\ inferred_type = "datetime64"
    /\ features = <<>>
    /\ result = NaN

Next == Prepare \/ DailyVol \/ SkipSession \/ BeginSession \/ Bar \/ EndOfDay \/ Finish

Spec == Init /\ [][Next]_vars

(***************************************************************************)
(* Properties of the engine (Spec)                                         *)
(***************************************************************************)
\* the trades with exit_reason "eod" whose exit falls in session s
EodTrades(s) ==
    {i \in DOMAIN trades : trades[i].exit_reason = "eod" /\ trades[i].exit_time[1] = s}

\* a traded session has just been walked to its end: session_df holds its rows
\* and pos the side held after its last bar
TradedSessionEnded == pc \in {"sessions", "done"} /\ shares_today # Zero

\* C1: end-of-day flatten.  A traded session that is LONG or SHORT after its
\* last bar gets exactly one "eod" trade, exiting at the timestamp and the
\* close of the session's last bar; a session that ends FLAT gets none; no
\* session ever has more than one, none while its bars are still walked; and
\* the walk of a session starts FLAT with no entry price and no entry time.
C1_EodFlatten ==
    /\ TradedSessionEnded =>
          LET last_row == session_df[Len(session_df)]
              eod == EodTrades(last_row.session)
          IN  IF pos # 0
              THEN /\ eod = {Len(trades)}
                   /\ trades[Len(trades)].exit_time = <<last_row.session, last_row.time>>
                   /\ trades[Len(trades)].exit_price = last_row.close
              ELSE eod = {}
    /\ \A s \in 1..MaxSessions : Cardinality(EodTrades(s)) <= 1
    /\ pc = "bars" => EodTrades(session_df[1].session) = {}
    /\ pc = "bars" /\ bar = 1 => pos = 0 /\ entry_price = None /\ entry_time = None

\* C1 witness: a session was flattened at a last bar that is no decision bar
\* and has no bands, and the walk of the next session has started
C1_Witness ==
    /\ pc = "bars" /\ bar = 1
    /\ trades # <<>>
    /\ LET t == trades[Len(trades)]
       IN  /\ t.exit_reason = "eod"
           /\ (t.exit_time[2] % 60) \notin config.decision_minutes
           /\ \E i \in DOMAIN df :
                 /\ <<df[i].session, df[i].time>> = t.exit_time
                 /\ isnan(df[i].upper)

\* C2: equity chaining.  The first row starts at initial_capital and every
\* row starts exactly where the row before it ended, skipped sessions included.
C2_EquityChaining ==
    equity_rows # <<>> =>
        /\ equity_rows[1].equity_start = config.initial_capital
        /\ \A i \in 1..(Len(equity_rows) - 1) :
              equity_rows[i + 1].equity_start = equity_rows[i].equity_end

\* C2 witness: after a skipped session, two sessions in a row were traded with
\* a non-zero P&L
C2_Witness ==
    /\ \E i \in DOMAIN equity_rows : equity_rows[i].shares = Zero
    /\ \E i \in 1..(Len(equity_rows) - 1) :
          /\ equity_rows[i].daily_pnl # Zero
          /\ equity_rows[i + 1].daily_pnl # Zero

Degenerate(vol) == isnan(vol) \/ RLe(vol, Zero)

\* C3: zero-volatility skip.  _calc_shares returns exactly 0 for a missing,
\* zero or negative estimate; the session of such an estimate gets one equity
\* row with daily_pnl = 0, equity_end = equity_start and shares = 0 and no
\* trade; none of its bars is walked; and the run goes on to give every
\* session its row.
C3_ZeroVolSkip ==
    /\ \A vol \in {NaN, Zero, R(-1, 100)} : \A o \in Prices :
          _calc_shares(capital, Q(o), vol) = Zero
    /\ \A i \in DOMAIN equity_rows :
          Degenerate(equity_rows[i].vol_est) =>
             /\ equity_rows[i].daily_pnl = Zero
             /\ equity_rows[i].equity_end = equity_rows[i].equity_start
             /\ equity_rows[i].shares = Zero
             /\ \A j \in DOMAIN trades :
                   /\ trades[j].exit_time[1] # equity_rows[i].date
                   /\ trades[j].entry_time[1] # equity_rows[i].date
    /\ pc = "bars" => ~Degenerate(vol_est)
    /\ \A i \in DOMAIN equity_rows :
          equity_rows[i].date = SortedSeq({df[k].session : k \in DOMAIN df})[i]
    /\ pc = "done" => Len(equity_rows) = Cardinality({df[k].session : k \in DOMAIN df})

\* C3 witness: the run ended after skipping a session with estimate 0 and one
\* with a missing estimate, and trading a session after a skipped one
C3_Witness ==
    /\ pc = "done"
    /\ \E i \in DOMAIN equity_rows : equity_rows[i].vol_est = Zero
    /\ \E i \in DOMAIN equity_rows : isnan(equity_rows[i].vol_est)
    /\ \E i \in 1..(Len(equity_rows) - 1) :
          /\ Degenerate(equity_rows[i].vol_est)
          /\ equity_rows[i + 1].shares # Zero
          /\ \E j \in DOMAIN trades : trades[j].exit_time[1] = equity_rows[i + 1].date

SessionOpenOf(s) == df[CHOOSE k \in DOMAIN df : df[k].session = s].session_open

\* C7: volatility-targeted sizing with leverage cap.  Every session with a
\* volatility estimate > 0 has shares = equity_start * min(max_leverage,
\* target_daily_vol / vol) / session_open, and its notional at the open,
\* shares * session_open, does not exceed max_leverage * equity_start.
C7_Sizing ==
    \A i \in DOMAIN equity_rows :
       LET row == equity_rows[i]
           so == SessionOpenOf(row.date)
           ratio == RDiv(config.target_daily_vol, row.vol_est)
           leverage == IF RLt(ratio, config.max_leverage) THEN ratio
                       ELSE config.max_leverage
       IN  RGt(row.vol_est, Zero) =>
              /\ row.shares = RDiv(RMul(row.equity_start, leverage), so)
              /\ RLe(RMul(row.shares, so), RMul(config.max_leverage, row.equity_start))

(***************************************************************************)
(* compute_noise_bands on its own (SpecNoise)                              *)
(***************************************************************************)
MaxLookback == 2

\* the frame of tests/test_noise_area.py in cents: 15 sessions, the open
\* drifting by one dollar a day, a bar at 09:30 at the open and one at 10:00
\* that is 1% above it
test_noise_frame ==
    [k \in 1..30 |->
        LET i == (k - 1) \div 2
            open_px == 100 * (100 + i)
            close_10 == 101 * (100 + i)
        IN  IF k % 2 = 1
            THEN [date |-> i + 1, time |-> 570, open |-> open_px, close |-> open_px,
                  volume |-> 1000]
            ELSE [date |-> i + 1, time |-> 600, open |-> close_10, close |-> close_10,
                  volume |-> 1000]]

NoiseFrames == Datasets(MaxSessions, <<570, 600>>, {1, MaxPrice}, Prices, {1})

NotRun ==
    /\ daily_vol = <<>> /\ df = <<>> /\ sessions = <<>> /\ capital = Zero
    /\ trades = <<>> /\ equity_rows = <<>> /\ Idle

InitNoise ==
    /\ \/ /\ intraday \in NoiseFrames
          /\ \E n \in 1..MaxLookback : \E vm \in {Zero, R(3, 2)} :
                config = [BacktesterConfig(n) EXCEPT !.volatility_multiplier = vm]
       \/ /\ intraday = test_noise_frame
          /\ config = BacktesterConfig(14)
    /\ pc = "call"
    /\ NotRun
    /\ equity_curve = <<>>
    /\ args = <<>>
    /\ inferred_type = "datetime64"
    /\ features = <<>>
    /\ result = NaN

\* bands = compute_noise_bands(df, lookback_days, volatility_multiplier)
ComputeNoiseBands ==
    /\ pc = "call"
    /\ result' = compute_noise_bands(intraday, config.lookback_days,
                                     config.volatility_multiplier)
    /\ pc' = "returned"
    /\ UNCHANGED <<config, intraday, daily_vol, df, sessions, session_df, bar, capital,
                   trades, equity_rows, shares_today, vol_est, pos, entry_price,
                   entry_time, daily_pnl, equity_curve, args,
                   inferred_type, features>>

NextNoise == ComputeNoiseBands

SpecNoise == InitNoise /\ [][NextNoise]_vars

\* the bar of session s in time bucket t
BarAt(frame, s, t) == {i \in DOMAIN frame : frame[i].date = s /\ frame[i].time = t}

\* |close / session_open - 1| of the bar of session s in bucket t, from the bars
MoveAt(frame, s, t) ==
    LET i == CHOOSE i \in BarAt(frame, s, t) : TRUE
        first == frame[SetMin({j \in DOMAIN frame : frame[j].date = s})]
    IN  RAbs(RSub(RDiv(Q(frame[i].close), Q(first.open)), One))

\* the sum of the moves in bucket t over the sessions keys[lo] .. keys[hi]
RECURSIVE MoveSum(_, _, _, _, _)
MoveSum(frame, keys, t, lo, hi) ==
    IF lo > hi THEN Zero
    ELSE RAdd(MoveAt(frame, keys[lo], t), MoveSum(frame, keys, t, lo + 1, hi))

\* the bars of session s and of every later session redrawn: each bar gets
\* close c and the open that mirrors it in the price range
Redrawn(frame, s, c) ==
    [j \in DOMAIN frame |->
        IF frame[j].date >= s
        THEN [frame[j] EXCEPT !.open = MaxPrice + 1 - c, !.close = c]
        ELSE frame[j]]

\* the frame cut off after session s
UpTo(frame, s) == SelectSeq(frame, LAMBDA row : row.date <= s)

\* C4: sigma uses only strictly prior sessions.  Wherever
\* compute_time_of_day_sigma yields a value for session S and bucket T, the N
\* sessions before S all have a bar at T, the value is the arithmetic mean of
\* their |close / session_open - 1| at T, and it stays the same when the bars
\* of S and of every later session are redrawn or the later sessions are cut
\* off; the 10:00 sigma of the 15th session of the test frame is 0.01.
C4_SigmaPriorOnly ==
    pc = "returned" =>
       /\ \A i \in DOMAIN intraday :
             ~isnan(result[i].sigma) =>
                LET keys == SessionKeys(intraday)
                    s == intraday[i].date
                    t == intraday[i].time
                    p == PosOf(keys, s)
                    N == config.lookback_days
                IN  /\ p > N
                    /\ \A k \in (p - N)..(p - 1) : BarAt(intraday, keys[k], t) # {}
                    /\ result[i].sigma =
                          RDiv(MoveSum(intraday, keys, t, p - N, p - 1), Q(N))
                    /\ \A c \in Prices :
                          compute_time_of_day_sigma(Redrawn(intraday, s, c), N)[i]
                             = result[i].sigma
                    /\ compute_time_of_day_sigma(UpTo(intraday, s), N)[i]
                          = result[i].sigma
       /\ intraday = test_noise_frame => result[30].sigma = R(1, 100)

\* C4 witness: a sigma was returned for a session that is not the last, whose
\* own move in the bucket differs from the sigma, with lookback 2 and two
\* different prior moves
C4_Witness ==
    /\ pc = "returned"
    /\ config.lookback_days = 2
    /\ \E i \in DOMAIN intraday :
          LET keys == SessionKeys(intraday)
              p == PosOf(keys, intraday[i].date)
          IN  /\ ~isnan(result[i].sigma)
              /\ move(intraday, i) # result[i].sigma
              /\ MoveAt(intraday, keys[p - 1], intraday[i].time)
                    # MoveAt(intraday, keys[p - 2], intraday[i].time)

\* C5: gap-adjusted bounds.  Every bar of a session that has a previous
\* session and a sigma gets upper = max(session_open, previous close) *
\* (1 + VM * sigma) and lower = min(session_open, previous close) *
\* (1 - VM * sigma), session_open being the open of the session's first bar
\* and the previous close the close of the last bar of the session before;
\* every bar of the first session has neither bound; the 10:00 bar of the
\* 15th session of the test frame gets 114.13 * 1.01 and 114 * 0.99.
C5_GapAdjustedBounds ==
    pc = "returned" =>
       /\ \A i \in DOMAIN intraday :
             LET keys == SessionKeys(intraday)
                 s == intraday[i].date
                 p == PosOf(keys, s)
             IN  IF p = 1 THEN isnan(result[i].upper) /\ isnan(result[i].lower)
                 ELSE ~isnan(result[i].sigma) =>
                    LET first == intraday[SetMin({j \in DOMAIN intraday :
                                                    intraday[j].date = s})]
                        last == intraday[SetMax({j \in DOMAIN intraday :
                                                   intraday[j].date = keys[p - 1]})]
                        hi == IF first.open >= last.close THEN first.open
                              ELSE last.close
                        lo == IF first.open <= last.close THEN first.open
                              ELSE last.close
                        vs == RMul(config.volatility_multiplier, result[i].sigma)
                    IN  /\ result[i].upper = RMul(Q(hi), RAdd(One, vs))
                        /\ result[i].lower = RMul(Q(lo), RSub(One, vs))
       /\ intraday = test_noise_frame =>
             /\ result[30].upper = R(11413 * 101, 100)
             /\ result[30].lower = R(11400 * 99, 100)

\* C5 witness: bounds were returned for a second bar of a session that gapped
\* away from the previous close, with a sigma above 0 and a multiplier above 0
C5_Witness ==
    /\ pc = "returned"
    /\ RGt(config.volatility_multiplier, Zero)
    /\ \E i \in DOMAIN intraday :
          /\ intraday[i].time = 600
          /\ RGt(result[i].sigma, Zero)
          /\ prev_close_map(intraday)[intraday[i].date]
                \notin {NaN, session_open(intraday, intraday[i].date)}
          /\ ~isnan(result[i].upper)

\* C9: noise-band ordering.  With a multiplier >= 0 and positive prices,
\* upper and lower of every bar are both missing or both defined, and upper
\* >= lower where they are defined.
C9_BandOrdering ==
    pc = "returned" =>
       \A i \in DOMAIN intraday :
          /\ isnan(result[i].upper) <=> isnan(result[i].lower)
          /\ ~isnan(result[i].upper) => RGe(result[i].upper, result[i].lower)

\* C9 witness: one frame has a bar without bounds in a session after the
\* first and a bar whose lower bound is negative and below its upper bound
C9_Witness ==
    /\ pc = "returned"
    /\ \E i \in DOMAIN intraday :
          intraday[i].date > 1 /\ isnan(result[i].upper) /\ isnan(result[i].lower)
    /\ \E i \in DOMAIN intraday :
          ~isnan(result[i].upper) /\ RGt(result[i].upper, result[i].lower)
          /\ RLt(result[i].lower, Zero)

(***************************************************************************)
(* intraday_vwap on its own (SpecVwap)                                     *)
(***************************************************************************)
MaxVolume == 2

MaxVwapSessions == 2

\* the frame of tests/test_vwap.py: two sessions of two one-minute bars
test_vwap_frame ==
    <<[date |-> 2, time |-> 570, open |-> 100, close |-> 100, volume |-> 100],
      [date |-> 2, time |-> 571, open |-> 100, close |-> 102, volume |-> 200],
      [date |-> 3, time |-> 570, open |-> 103, close |-> 103, volume |-> 100],
      [date |-> 3, time |-> 571, open |-> 103, close |-> 104, volume |-> 300]>>

VwapFrames ==
    Datasets(MaxVwapSessions, <<570, 571, 572>>, {2}, {1, MaxPrice}, 0..MaxVolume)

InitVwap ==
    /\ intraday \in VwapFrames \cup {test_vwap_frame}
    /\ config = BacktesterConfig(14)
    /\ pc = "call"
    /\ NotRun
    /\ equity_curve = <<>>
    /\ args = <<>>
    /\ inferred_type = "datetime64"
    /\ features = <<>>
    /\ result = NaN

\* df.index.inferred_type.startswith("datetime")
datetime_like(t) == t \in {"datetime64", "datetime"}

\* out = intraday_vwap(df): the index check, then the vwap column
ComputeVwap ==
    /\ pc = "call"
    /\ IF ~datetime_like(inferred_type)
       THEN pc' = "ValueError" /\ UNCHANGED result
       ELSE result' = intraday_vwap(intraday) /\ pc' = "returned"
    /\ UNCHANGED <<config, intraday, daily_vol, df, sessions, session_df, bar, capital,
                   trades, equity_rows, shares_today, vol_est, pos, entry_price,
                   entry_time, daily_pnl, equity_curve, args,
                   inferred_type, features>>

NextVwap == ComputeVwap

SpecVwap == InitVwap /\ [][NextVwap]_vars

\* the bars of one session, in order
OnlySession(frame, s) == SelectSeq(frame, LAMBDA row : row.date = s)

\* sum of close * volume and sum of volume over bars 1..k of a session
RECURSIVE PvUpTo(_, _)
PvUpTo(ses, k) == IF k = 0 THEN 0 ELSE ses[k].close * ses[k].volume + PvUpTo(ses, k - 1)

RECURSIVE VolUpTo(_, _)
VolUpTo(ses, k) == IF k = 0 THEN 0 ELSE ses[k].volume + VolUpTo(ses, k - 1)

\* C6: VWAP resets per session and is cumulative within it.  For bar k of a
\* session the value is the sum of close * volume over bars 1..k of that
\* session divided by the sum of their volumes, missing exactly when that
\* volume sum is 0; it is the value the function returns for the session alone,
\* whatever the other sessions hold; the last bars of the two test sessions
\* get 304/3 and 103.75.
C6_VwapPerSession ==
    pc = "returned" =>
       /\ \A i \in DOMAIN intraday :
             LET s == intraday[i].date
                 ses == OnlySession(intraday, s)
                 k == Cardinality({j \in 1..i : intraday[j].date = s})
             IN  /\ IF VolUpTo(ses, k) = 0 THEN isnan(result[i])
                    ELSE result[i] = R(PvUpTo(ses, k), VolUpTo(ses, k))
                 /\ result[i] = intraday_vwap(ses)[k]
       /\ intraday = test_vwap_frame =>
             result[2] = R(304, 3) /\ result[4] = R(415, 4)

\* C6 witness: the second session opens with a bar without volume after a
\* first session that traded volume, and its third bar averages bars of
\* different closes with different volumes
C6_Witness ==
    /\ pc = "returned"
    /\ Len(intraday) = 6
    /\ intraday[3].volume > 0
    /\ intraday[4].date # intraday[3].date
    /\ isnan(result[4])
    /\ intraday[5].close # intraday[6].close
    /\ intraday[5].volume > intraday[6].volume
    /\ intraday[6].volume > 0
    /\ ~isnan(result[6])

(***************************************************************************)
(* max_drawdown on its own (SpecAnalytics)                                 *)
(***************************************************************************)
MaxEquity == 2

MaxCurveLen == 4

EquityCurves == UNION {[1..n -> (-MaxEquity)..MaxEquity] : n \in 1..MaxCurveLen}

InitAnalytics ==
    /\ equity_curve \in EquityCurves
    /\ intraday = <<>>
    /\ config = BacktesterConfig(14)
    /\ pc = "call"
    /\ NotRun
    /\ args = <<>>
    /\ inferred_type = "datetime64"
    /\ features = <<>>
    /\ result = NaN

\* max_dd = max_drawdown(equity_df["equity_end"])
MaxDrawdown ==
    /\ pc = "call"
    /\ result' = max_drawdown(equity_curve)
    /\ pc' = "returned"
    /\ UNCHANGED <<config, intraday, daily_vol, df, sessions, session_df, bar, capital,
                   trades, equity_rows, shares_today, vol_est, pos, entry_price,
                   entry_time, daily_pnl, equity_curve, args,
                   inferred_type, features>>

NextAnalytics == MaxDrawdown

SpecAnalytics == InitAnalytics /\ [][NextAnalytics]_vars

NonDecreasing(curve) == \A i \in 1..(Len(curve) - 1) : curve[i] <= curve[i + 1]

\* C8 as stated: for any equity curve the result is <= 0, and it is 0 only if
\* the curve is non-decreasing throughout.
C8_AnyCurve ==
    pc = "returned" =>
       /\ RLe(result, Zero)
       /\ result = Zero => NonDecreasing(equity_curve)

\* C8 as amended: for any equity curve that starts with a positive value the
\* result is <= 0, and it is 0 only if the curve is non-decreasing throughout.
C8_MaxDrawdownBound ==
    pc = "returned" /\ equity_curve[1] > 0 =>
       /\ RLe(result, Zero)
       /\ result = Zero => NonDecreasing(equity_curve)

\* C8 witness: a curve that starts positive, rises and ends below zero, with a
\* drawdown below -1
C8_Witness ==
    /\ pc = "returned"
    /\ Len(equity_curve) >= 3
    /\ equity_curve[1] > 0
    /\ equity_curve[2] > equity_curve[1]
    /\ equity_curve[Len(equity_curve)] < 0
    /\ RLt(result, Q(-1))

(***************************************************************************)
(* scripts/run_backtest.py and scripts/param_sweep.py (SpecScript)         *)
(***************************************************************************)
\* the keyword arguments each script passes to BacktesterConfig
ConfigKwargs(script) ==
    IF script = "run_backtest" THEN {"earliest_entry_time", "entry_buffer_pct"}
    ELSE {"volatility_multiplier", "target_daily_vol", "earliest_entry_time",
          "entry_buffer_pct"}

\* --earliest-entry HH:MM and --entry-buffer-pct of a command line
ScriptArgs ==
    [script : {"run_backtest", "param_sweep"},
     earliest_entry : (9..15) \X {0, 15, 30, 45},
     entry_buffer_pct : {Zero, R(1, 1000)}]

InitScript ==
    /\ args \in ScriptArgs
    /\ inferred_type = "datetime64"
    /\ features = <<>>
    /\ \E grid \in TimeGrids : intraday \in Datasets(1, grid, {2}, {2}, {1})
    /\ config = BacktesterConfig(14)
    /\ pc = "main"
    /\ NotRun
    /\ equity_curve = <<>>
    /\ result = NaN

\* main() of run_backtest.py, run_sweep() of param_sweep.py: the config is
\* built from the parsed arguments; a keyword that is no field of the dataclass
\* makes its __init__ raise TypeError, otherwise the backtest runs
ScriptMain ==
    /\ pc = "main"
    /\ IF ConfigKwargs(args.script) \subseteq DOMAIN config
       THEN pc' = "start"
       ELSE pc' = "TypeError"
    /\ UNCHANGED <<config, intraday, daily_vol, df, sessions, session_df, bar, capital,
                   trades, equity_rows, shares_today, vol_est, pos, entry_price,
                   entry_time, daily_pnl, equity_curve, args,
                   inferred_type, features, result>>

NextScript == ScriptMain

SpecScript == InitScript /\ [][NextScript]_vars

\* C10: entry gating.  A run configured with earliest_entry_time = t the way
\* the scripts do completes, and no trade of it is entered on a bar whose time
\* of day is before t.
C10_EntryGating ==
    pc # "main" =>
       /\ pc # "TypeError"
       /\ \A i \in DOMAIN trades :
             trades[i].entry_time[2]
                >= 60 * args.earliest_entry[1] + args.earliest_entry[2]

(***************************************************************************)
(* intraday_vwap on frames of any index type and row order (SpecVwapAny)   *)
(***************************************************************************)
\* the rows of a frame in every order
Reordered(frame) ==
    {[i \in DOMAIN frame |-> frame[p[i]]] : p \in Permutations(DOMAIN frame)}

InitVwapAny ==
    /\ \E f \in Datasets(MaxVwapSessions, <<570, 571>>, {2}, {1, MaxPrice}, {1}) :
          intraday \in Reordered(f)
    /\ inferred_type \in {"datetime64", "integer", "string"}
    /\ features = <<>>
    /\ config = BacktesterConfig(14)
    /\ pc = "call"
    /\ NotRun
    /\ equity_curve = <<>>
    /\ args = <<>>
    /\ result = NaN

SpecVwapAny == InitVwapAny /\ [][NextVwap]_vars

\* the rows are in ascending chronological order
Chronological(frame) ==
    \A i \in 1..(Len(frame) - 1) :
       \/ frame[i].date < frame[i + 1].date
       \/ frame[i].date = frame[i + 1].date /\ frame[i].time < frame[i + 1].time

\* C11: fail-fast precondition.  Whenever the input of intraday_vwap is not
\* time-indexed or its rows are not in ascending chronological order, the call
\* ends in an error and has produced no VWAP value.
C11_FailFast ==
    pc # "call" /\ (~datetime_like(inferred_type) \/ ~Chronological(intraday)) =>
       pc = "ValueError" /\ result = NaN

(***************************************************************************)
(* Properties of the bar loop (Spec)                                       *)
(***************************************************************************)
\* a bar is about to be processed
AtBar == pc = "bars" /\ bar <= Len(session_df)

\* the bar about to be processed has both bands
BandsDefined == ~isnan(session_df[bar].upper) /\ ~isnan(session_df[bar].lower)

\* the held position meets its stop condition at the bar about to be processed
StopHit ==
    LET row == session_df[bar]
    IN  \/ pos > 0 /\ RLe(row.close, PyMax(row.upper, row.vwap))
        \/ pos < 0 /\ RGe(row.close, PyMin(row.lower, row.vwap))

\* processing the bar appends, as its first trade, the close of the held
\* position at the bar's close and timestamp with the given reason
ClosesHeld(reason) ==
    LET row == session_df[bar]
    IN  /\ Len(trades') > Len(trades)
        /\ SubSeq(trades', 1, Len(trades)) = trades
        /\ LET t == trades'[Len(trades) + 1]
           IN  /\ t.exit_reason = reason
               /\ t.side = (IF pos > 0 THEN "LONG" ELSE "SHORT")
               /\ t.exit_time = Timestamp(row)
               /\ t.exit_price = row.close
               /\ t.entry_time = entry_time
               /\ t.entry_price = entry_price

\* C12 as stated: on every bar with bands, decision mark or not, a position
\* that meets its stop condition is closed at the bar's close with reason
\* "stop".
C12_StopEveryBar ==
    [][AtBar /\ BandsDefined /\ StopHit => ClosesHeld("stop")]_vars

\* C12 as amended: on a decision bar with bands a position that meets its stop
\* condition is closed at the bar's close with reason "stop"; a bar that is
\* not on a decision mark changes neither the position nor the trade log,
\* stop condition or not.
C12_StopAtDecisionBars ==
    [][AtBar /\ BandsDefined =>
          IF decision_time(session_df[bar])
          THEN StopHit => ClosesHeld("stop")
          ELSE UNCHANGED <<pos, entry_price, entry_time, daily_pnl, trades>>]_vars

\* C12 witness: the second bar of a session, a decision bar, has just stopped
\* the position entered on the first
C12_Witness ==
    /\ pc = "bars" /\ bar = 3
    /\ decision_time(session_df[2])
    /\ trades # <<>>
    /\ trades[Len(trades)].exit_reason = "stop"
    /\ trades[Len(trades)].exit_time = Timestamp(session_df[2])
    /\ trades[Len(trades)].entry_time = Timestamp(session_df[1])

\* C13: flip and band-exit labelling.  At a decision bar with bands, a LONG
\* with close < lower (a SHORT with close > upper) is closed by a trade with
\* reason "reverse" and the opposite position is opened at the same close and
\* timestamp; a position with lower <= close <= upper is closed by a trade
\* with reason "band_exit" and the engine is FLAT.
C13_FlipLabelling ==
    [][AtBar /\ BandsDefined /\ decision_time(session_df[bar]) /\ pos # 0 =>
          LET row == session_df[bar]
          IN  /\ (\/ pos > 0 /\ RLt(row.close, row.lower)
                  \/ pos < 0 /\ RGt(row.close, row.upper)) =>
                     /\ ClosesHeld("reverse")
                     /\ pos' = -pos
                     /\ entry_price' = row.close
                     /\ entry_time' = Timestamp(row)
              /\ RLe(row.lower, row.close) /\ RLe(row.close, row.upper) =>
                     /\ ClosesHeld("band_exit")
                     /\ pos' = 0]_vars

\* C14: bars with undefined bounds are skipped entirely.  Processing a bar
\* whose upper or lower band is missing leaves the position, the entry price,
\* the entry time, the session's accumulated P&L and the trade log as they
\* were, decision bar or not, position open or not.
C14_UndefinedBoundsSkipped ==
    [][AtBar /\ ~BandsDefined =>
          UNCHANGED <<pos, entry_price, entry_time, daily_pnl, trades>>]_vars

\* C14 witness: a LONG entered on the first bar is still held after a second
\* bar that is a decision bar without bands and closed below the entry price
C14_Witness ==
    /\ pc = "bars" /\ bar = 3
    /\ pos > 0
    /\ entry_time = Timestamp(session_df[1])
    /\ decision_time(session_df[2])
    /\ isnan(session_df[2].upper)
    /\ RLt(session_df[2].close, entry_price)

\* the close of the bar with timestamp ts
CloseAt(ts) == df[CHOOSE i \in DOMAIN df : Timestamp(df[i]) = ts].close

\* C15: trade accounting.  Every trade, whatever its exit reason, has
\* gross_pnl = (exit_price - entry_price) * shares if LONG and (entry_price -
\* exit_price) * shares if SHORT, costs = shares * (commission_per_share +
\* slippage_per_share) * 2 and net_pnl = gross_pnl - costs, entry_price being
\* the close of the bar at entry_time and exit_price the close of the bar at
\* exit_time.
C15_TradeAccounting ==
    \A i \in DOMAIN trades :
       LET t == trades[i]
       IN  /\ t.side \in {"LONG", "SHORT"}
           /\ t.gross_pnl =
                 (IF t.side = "LONG"
                  THEN RMul(RSub(t.exit_price, t.entry_price), t.shares)
                  ELSE RMul(RSub(t.entry_price, t.exit_price), t.shares))
           /\ t.costs =
                 RMul(RMul(t.shares, RAdd(config.commission_per_share,
                                          config.slippage_per_share)), Q(2))
           /\ t.net_pnl = RSub(t.gross_pnl, t.costs)
           /\ t.entry_price = CloseAt(t.entry_time)
           /\ t.exit_price = CloseAt(t.exit_time)

\* C15 witness: the log holds a LONG trade with a non-zero gross P&L closed by
\* a stop and a SHORT trade closed by the end-of-day flatten
C15_Witness ==
    /\ \E i \in DOMAIN trades :
          /\ trades[i].side = "LONG" /\ trades[i].gross_pnl # Zero
          /\ trades[i].exit_reason = "stop"
    /\ \E i \in DOMAIN trades :
          trades[i].side = "SHORT" /\ trades[i].exit_reason = "eod"

\* the trades whose exit falls in session s
ExitsIn(s) == {i \in DOMAIN trades : trades[i].exit_time[1] = s}

RECURSIVE NetSum(_)
NetSum(S) ==
    IF S = {} THEN Zero
    ELSE LET i == CHOOSE i \in S : TRUE
         IN  RAdd(trades[i].net_pnl, NetSum(S \ {i}))

\* C16: additive session accounting.  The daily_pnl of every equity row is the
\* sum of net_pnl over exactly the trades whose exit_time falls in the row's
\* session (0 if there are none), and equity_end = equity_start + daily_pnl.
C16_AdditiveAccounting ==
    \A i \in DOMAIN equity_rows :
       LET row == equity_rows[i]
       IN  /\ row.daily_pnl = NetSum(ExitsIn(row.date))
           /\ row.equity_end = RAdd(row.equity_start, row.daily_pnl)

\* C16 witness: a session closed two trades, and another session with a row
\* closed none
C16_Witness ==
    /\ \E i \in DOMAIN equity_rows :
          /\ Cardinality(ExitsIn(equity_rows[i].date)) = 2
          /\ equity_rows[i].daily_pnl # Zero
    /\ \E i \in DOMAIN equity_rows :
          equity_rows[i].shares # Zero /\ ExitsIn(equity_rows[i].date) = {}

(***************************************************************************)
(* Further properties of compute_noise_bands (SpecNoise)                   *)
(***************************************************************************)
\* the sessions strictly before the session at position p that have a bar in
\* time bucket t
PriorWithBucket(frame, keys, p, t) ==
    {k \in 1..(p - 1) : BarAt(frame, keys[k], t) # {}}

\* C17: sigma warm-up and definedness.  Sigma and both bounds of a bar of
\* session S in bucket T are missing exactly as long as fewer than N sessions
\* strictly before S have a bar at T, and are defined once N such sessions
\* exist, also when sessions right before S lack a bar at T.
C17_SigmaWarmup ==
    pc = "returned" =>
       \A i \in DOMAIN intraday :
          LET keys == SessionKeys(intraday)
              p == PosOf(keys, intraday[i].date)
              enough == Cardinality(PriorWithBucket(intraday, keys, p,
                                                    intraday[i].time))
                           >= config.lookback_days
          IN  /\ isnan(result[i].sigma) <=> ~enough
              /\ isnan(result[i].upper) <=> ~enough
              /\ isnan(result[i].lower) <=> ~enough

(***************************************************************************)
(* src/src/strategy.py: IntradayMomentumStrategy.generate_signals          *)
(* (SpecStrategy)                                                          *)
(***************************************************************************)
MaxFeatureBars == 3

MaxHoldBars == 2

StrategyConfig(volatility_multiple, max_position, hold_bars) ==
    [volatility_multiple |-> volatility_multiple, max_position |-> max_position,
     hold_bars |-> hold_bars]

\* the rows build_features can hand over: the close is 2; the band is missing
\* (warm-up), around the close or above it; the volatility is missing or 1/2;
\* the momentum is missing, or below, at or above the threshold
FeatureRows ==
    [close : {Q(2)},
     band : {<<NaN, NaN>>, <<Q(1), Q(3)>>, <<Q(3), Q(4)>>},
     volatility : {NaN, R(1, 2)},
     momentum : {NaN, Q(-1), R(-1, 2), R(1, 2), Q(1)}]

\* enriched["close"].between(enriched["lower"], enriched["upper"])
in_noise(row) == RLe(row.band[1], row.close) /\ RLe(row.close, row.band[2])

\* mutant: a momentum equal to the threshold already gives a signal
apply_threshold_inclusive(momentum, threshold) ==
    IF RLe(momentum, RNeg(threshold)) THEN Q(-1)
    ELSE IF RGe(momentum, threshold) THEN One
    ELSE Zero

\* one entry of the series _apply_threshold returns
_apply_threshold(momentum, threshold) ==
    IF RLt(momentum, RNeg(threshold)) THEN Q(-1)
    ELSE IF RGt(momentum, threshold) THEN One
    ELSE Zero

\* raw_signals after .where(~features["in_noise"], 0.0)
raw_signals(frame, cfg) ==
    [i \in DOMAIN frame |->
        IF in_noise(frame[i]) THEN Zero
        ELSE _apply_threshold(frame[i].momentum,
                              RMul(frame[i].volatility, cfg.volatility_multiple))]

\* .replace(0, np.nan)
replace_zero(col) == [i \in DOMAIN col |-> IF col[i] = Zero THEN NaN ELSE col[i]]

\* the forward fill of the first k entries: the filled entries, the last
\* value seen and the number of entries filled since
RECURSIVE pad(_, _, _)
pad(col, limit, k) ==
    IF k = 0 THEN [out |-> <<>>, val |-> IF Len(col) = 0 THEN NaN ELSE col[1],
                   fill_count |-> 0]
    ELSE LET prev == pad(col, limit, k - 1)
         IN  IF isnan(col[k])
             THEN IF prev.fill_count >= limit
                  THEN [prev EXCEPT !.out = Append(prev.out, NaN)]
                  ELSE [prev EXCEPT !.out = Append(prev.out, prev.val),
                                    !.fill_count = prev.fill_count + 1]
             ELSE [out |-> Append(prev.out, col[k]), val |-> col[k], fill_count |-> 0]

\* .ffill(limit=limit)
ffill(col, limit) == pad(col, limit, Len(col)).out

\* .fillna(0.0)
fillna_zero(col) == [i \in DOMAIN col |-> IF isnan(col[i]) THEN Zero ELSE col[i]]

\* .clip(lower=lo, upper=hi)
clip(col, lo, hi) == [i \in DOMAIN col |-> NpMinimum(NpMaximum(col[i], lo), hi)]

\* the signal and position columns generate_signals adds to the features
generate_signals(frame, cfg) ==
    LET raw == raw_signals(frame, cfg)
        positions == clip(fillna_zero(ffill(replace_zero(raw), cfg.hold_bars)),
                          RNeg(cfg.max_position), cfg.max_position)
    IN  [i \in DOMAIN frame |-> [signal |-> raw[i], position |-> positions[i]]]

InitStrategy ==
    /\ features \in UNION {[1..n -> FeatureRows] : n \in 1..MaxFeatureBars}
    /\ \E vm \in {Zero, One} : \E mp \in {R(1, 2), One} : \E hold \in 0..MaxHoldBars :
          config = StrategyConfig(vm, mp, hold)
    /\ intraday = <<>>
    /\ inferred_type = "datetime64"
    /\ pc = "call"
    /\ NotRun
    /\ equity_curve = <<>>
    /\ args = <<>>
    /\ result = NaN

\* features = strategy.generate_signals(df), from the features on; pandas
\* refuses a fill limit below 1 with ValueError("Limit must be greater than 0")
GenerateSignals ==
    /\ pc = "call"
    /\ IF config.hold_bars < 1
       THEN pc' = "ValueError" /\ UNCHANGED result
       ELSE result' = generate_signals(features, config) /\ pc' = "returned"
    /\ UNCHANGED <<config, intraday, daily_vol, df, sessions, session_df, bar, capital,
                   trades, equity_rows, shares_today, vol_est, pos, entry_price,
                   entry_time, daily_pnl, equity_curve, args, inferred_type, features>>

NextStrategy == GenerateSignals

SpecStrategy == InitStrategy /\ [][NextStrategy]_vars

\* C18: band membership overrides momentum.  Every returned signal is +1, 0
\* or -1; it is 0 whenever lower <= close <= upper; otherwise it is +1 if
\* momentum > threshold, -1 if momentum < -threshold and 0 in all other cases,
\* a missing momentum or threshold included, the threshold being volatility *
\* volatility_multiple.
C18_BandOverridesMomentum ==
    pc = "returned" =>
       \A i \in DOMAIN features :
          LET f == features[i]
              threshold == RMul(f.volatility, config.volatility_multiple)
              lower == f.band[1]
              upper == f.band[2]
              signal == result[i].signal
          IN  /\ signal \in {Q(1), Q(0), Q(-1)}
              /\ IF RLe(lower, f.close) /\ RLe(f.close, upper) THEN signal = Q(0)
                 ELSE IF RGt(f.momentum, threshold) THEN signal = Q(1)
                 ELSE IF RLt(f.momentum, RNeg(threshold)) THEN signal = Q(-1)
                 ELSE signal = Q(0)

\* C18 witness: one frame has a bar inside the band with a momentum above the
\* threshold, a bar outside it with a momentum equal to the threshold and a
\* warm-up bar, and the signals of a +1 and a -1 bar
C18_Witness ==
    /\ pc = "returned"
    /\ \E i \in DOMAIN features :
          /\ in_noise(features[i])
          /\ RGt(features[i].momentum,
                 RMul(features[i].volatility, config.volatility_multiple))
    /\ \E i \in DOMAIN features :
          /\ ~in_noise(features[i])
          /\ features[i].momentum
                = RMul(features[i].volatility, config.volatility_multiple)
    /\ \E i \in DOMAIN features : result[i].signal = Q(-1)

\* C19: hold horizon.  For every hold_bars >= 0 the call returns, and the
\* position at bar t is the most recent non-zero signal (at a bar s <= t)
\* clipped to [-max_position, +max_position] if t - s <= hold_bars, and 0
\* otherwise.
C19_HoldHorizon ==
    pc # "call" =>
       /\ pc = "returned"
       /\ \A t \in DOMAIN features :
             LET S == {s \in 1..t : result[s].signal # Zero}
                 s == SetMax(S)
             IN  result[t].position =
                    IF S # {} /\ t - s <= config.hold_bars
                    THEN IF result[s].signal = One
                         THEN PyMin(One, config.max_position)
                         ELSE RNeg(PyMin(One, config.max_position))
                    ELSE Zero

(***************************************************************************)
(* Further properties of the bar loop (Spec)                               *)
(***************************************************************************)
\* C20: no same-bar re-entry after a stop.  A bar that closes the held
\* position with reason "stop" does not open a new position of the same side
\* on that same bar.
C20_NoSameBarReentry ==
    [][AtBar /\ Len(trades') > Len(trades)
             /\ trades'[Len(trades) + 1].exit_reason = "stop" =>
          ~(pos' = pos /\ entry_time' = Timestamp(session_df[bar]))]_vars

\* C21: positive share size.  Every session that is traded (not skipped) has
\* shares > 0, and every trade has shares > 0 and costs >= 0, also after the
\* capital has fallen to zero or below.
C21_PositiveShares ==
    /\ \A i \in DOMAIN equity_rows :
          equity_rows[i].shares # Zero => RGt(equity_rows[i].shares, Zero)
    /\ pc = "bars" => RGt(shares_today, Zero)
    /\ \A i \in DOMAIN trades :
          RGt(trades[i].shares, Zero) /\ RGe(trades[i].costs, Zero)

\* C22: no zero-duration trade.  Every trade has its entry_time strictly
\* before its exit_time; no position is opened on the last bar of a session
\* and closed by the end-of-day flatten at the same timestamp.
C22_NoZeroDurationTrade ==
    \A i \in DOMAIN trades :
       \/ trades[i].entry_time[1] < trades[i].exit_time[1]
       \/ /\ trades[i].entry_time[1] = trades[i].exit_time[1]
          /\ trades[i].entry_time[2] < trades[i].exit_time[2]

====
